---- MODULE Spec2Model ----
(***************************************************************************)
(* A model of the file-backed reference transaction of git-ref             *)
(* (src/git-ref/src/store/file/transaction.rs): Store::transaction,        *)
(* Transaction::prepare, lock_ref_and_apply_change, commit, into_edits and *)
(* the drop of a transaction, run by one transaction (Spec) or by two      *)
(* transactions interleaved at their filesystem operations (SpecConc).     *)
(***************************************************************************)
EXTENDS Integers, Sequences, FiniteSets, TLC

\* ------------------------------------------------------------------ bounds

\* The longest batch of edits handed to Store::transaction under Spec.
MaxEdits == 2

\* The longest batch of each of the two transactions under SpecConc.
MaxConcEdits == 2

\* The most calls of prepare made on one transaction under Spec.
MaxPrepares == 2

\* The most calls of prepare made on each transaction under SpecConc.
MaxConcPrepares == 1

\* ------------------------------------------------------------------ values

\* Option<T>: None is the empty sequence, Some(x) the one-element sequence.
None == << >>

Some(x) == << x >>

\* The reference names of the store and the transactions that use it.
Names == {"a", "b"}

Txs == {1, 2}

\* The object ids that references can point to.
Oids == {"X", "Y"}

\* ObjectId::as_bytes: the raw bytes of an object id.
as_bytes(oid) == IF oid = "X" THEN <<1, 2>> ELSE <<3, 4>>

\* FullName::as_ref: the bytes of a reference name ("a" is 97, "b" is 98).
name_bytes(name) == IF name = "a" THEN <<97>> ELSE <<98>>

\* The literal b"ref: " written in front of a symbolic target.
RefPrefix == <<114, 101, 102, 58, 32>>

\* Target::Peeled(oid) and Target::Symbolic(name).
Peeled(oid) == [kind |-> "Peeled", oid |-> oid, name |-> ""]

Symbolic(name) == [kind |-> "Symbolic", oid |-> "", name |-> name]

\* A writer that ends the file with a newline.
StagedBytesWithNewline(new) ==
    (IF new.kind = "Peeled" THEN as_bytes(new.oid) ELSE RefPrefix \o name_bytes(new.name))
    \o <<10>>

\* The bytes lock_ref_and_apply_change stages for the new target of an Update.
StagedBytes(new) ==
    IF new.kind = "Peeled"
    THEN as_bytes(new.oid)
    ELSE RefPrefix \o name_bytes(new.name)

\* file::Reference::try_from_path followed by target(): the target a
\* reference file's bytes decode to, or an error for any other content.
Decode(buf) ==
    IF \E o \in Oids : buf = as_bytes(o)
    THEN [tag |-> "Ok", val |-> Some(Peeled(CHOOSE o \in Oids : buf = as_bytes(o)))]
    ELSE IF \E n \in Names : buf = RefPrefix \o name_bytes(n)
    THEN [tag |-> "Ok",
          val |-> Some(Symbolic(CHOOSE n \in Names : buf = RefPrefix \o name_bytes(n)))]
    ELSE [tag |-> "ReferenceDecode", val |-> None]

\* Content of a reference file that is neither an object id nor "ref: <name>".
Garbage == <<0>>

\* Change::Update { previous, new, mode: _ } and Change::Delete { previous, mode: _ }.
Update(previous, new) == [kind |-> "Update", previous |-> previous, new |-> Some(new)]

Delete(previous) == [kind |-> "Delete", previous |-> previous, new |-> None]

RefEdit(name, change) == [name |-> name, change |-> change]

\* The requested `previous` values, new targets and stored contents tried.
PreviousChoices == {None, Some(Peeled("X")), Some(Peeled("Y"))}

NewChoices == {Peeled("X"), Symbolic("b")}

ContentChoices ==
    {None, Some(as_bytes("X")), Some(as_bytes("Y")),
     Some(StagedBytes(Symbolic("b"))), Some(Garbage)}

\* Every RefEdit a caller can put in a batch, and the batches of at most n edits.
RefEdits ==
    {RefEdit(n, Update(p, new)) : n \in Names, p \in PreviousChoices, new \in NewChoices}
    \cup {RefEdit(n, Delete(p)) : n \in Names, p \in PreviousChoices}

\* The edits and stored contents of the interleaved transactions: `previous`
\* is unset and the new target is symbolic.
ConcRefEdits ==
    {RefEdit(n, Update(None, Symbolic("b"))) : n \in Names}
    \cup {RefEdit(n, Delete(None)) : n \in Names}

ConcContentChoices == {None, Some(as_bytes("X"))}

Batches(edits, n) == UNION {[1..k -> edits] : k \in 0..n}

\* ------------------------------------------------------------------ state

VARIABLES
    store,         \* the reference files: name -> Option<bytes>
    lockfile,      \* the lock file next to each reference: name -> Option<bytes>
    updates,       \* Transaction::updates: tx -> sequence of Edit
    state,         \* Transaction::state: tx -> "Open" | "Prepared"
    pc,            \* where each transaction is
    call,          \* the method the caller invoked: "prepare" | "commit" | ""
    idx,           \* the position of the loop over updates that is running
    existing_ref,  \* the local existing_ref of lock_ref_and_apply_change
    lock,          \* the local lock of commit's deletion loop
    result,        \* what the transaction's last call returned, once it ended
    returned,      \* the edits returned by commit or into_edits
    input,         \* the edits given to Store::transaction
    before,        \* the store as it was when the transaction was created
    fault,         \* whether a lock or I/O operation of the transaction failed
    vanished,      \* the references whose file a process outside removed
    prepares       \* how many times prepare was called on the transaction

vars ==
    <<store, lockfile, updates, state, pc, call, idx, existing_ref, lock, result,
      returned, input, before, fault, vanished, prepares>>

NoResult == [tag |-> "None", name |-> ""]

Init ==
    /\ store \in [Names -> ContentChoices]
    /\ lockfile = [n \in Names |-> None]
    /\ updates = [t \in Txs |-> << >>]
    /\ state = [t \in Txs |-> "Open"]
    /\ pc = [t \in Txs |-> "new"]
    /\ call = [t \in Txs |-> ""]
    /\ idx = [t \in Txs |-> 0]
    /\ existing_ref = [t \in Txs |-> [tag |-> "Ok", val |-> None]]
    /\ lock = [t \in Txs |-> None]
    /\ result = [t \in Txs |-> NoResult]
    /\ returned = [t \in Txs |-> << >>]
    /\ input = [t \in Txs |-> << >>]
    /\ before = [t \in Txs |-> store]
    /\ fault = [t \in Txs |-> FALSE]
    /\ vanished = {}
    /\ prepares = [t \in Txs |-> 0]

\* ------------------------------------------------------------------ helpers

NumEdits(t) == Len(updates[t])

\* The reference names whose lock the transaction holds: through an Edit's
\* `lock` field or through the local `lock` of commit's deletion loop.
HeldNames(t) ==
    {updates[t][i].update.name : i \in {j \in 1..NumEdits(t) : updates[t][j].lock # None}}
    \cup {lock[t][i] : i \in 1..Len(lock[t])}

\* Dropping a git_lock::Marker or git_lock::File removes its lock file, and
\* with it whatever was staged there.
DropLocks(files, held) == [n \in Names |-> IF n \in held THEN None ELSE files[n]]

\* The Edits of a transaction once every lock they held was dropped or taken.
Unlocked(edits) == [i \in 1..Len(edits) |-> [edits[i] EXCEPT !.lock = None]]

\* RefEditsExt::assure_one_name_has_one_edit: the name of the first edit
\* whose reference name occurs again later in the batch, if there is one.
DuplicateAt(edits) ==
    {i \in 1..Len(edits) :
        \E j \in (i + 1)..Len(edits) : edits[j].update.name = edits[i].update.name}

assure_one_name_has_one_edit(edits) ==
    IF DuplicateAt(edits) = {}
    THEN [tag |-> "Ok", name |-> ""]
    ELSE LET i == CHOOSE k \in DuplicateAt(edits) : \A m \in DuplicateAt(edits) : k <= m
         IN [tag |-> "DuplicateRefEdits", name |-> edits[i].update.name]

\* A transaction whose drop leaves its lock files behind.
LocksLeakedOnDrop(t) == {}

\* The lock files removed when a transaction is dropped: those of every lock
\* its Edits still hold (and of a lock held by a local of the running call).
LocksReleasedOnDrop(t) == HeldNames(t)

\* The call of the transaction ends, by an error return, a panic, a drop or a
\* normal return that consumes it: the transaction and what it owns is dropped.
Finish(t, res, edits) ==
    /\ pc' = [pc EXCEPT ![t] = "done"]
    /\ result' = [result EXCEPT ![t] = res]
    /\ returned' = [returned EXCEPT ![t] = edits]
    /\ lockfile' = DropLocks(lockfile, LocksReleasedOnDrop(t))
    /\ updates' = [updates EXCEPT ![t] = Unlocked(@)]
    /\ lock' = [lock EXCEPT ![t] = None]
    /\ existing_ref' = [existing_ref EXCEPT ![t] = [tag |-> "Ok", val |-> None]]
    /\ call' = [call EXCEPT ![t] = ""]

Err(tag, name) == [tag |-> tag, name |-> name]

\* A commit that deletes before it updates.
DeletesFirst == <<"deletes", "updates">>

\* The two loops of commit over the edits, in the order they run.
PhaseOrder == <<"updates", "deletes">>

AfterPhase(p) == IF p = PhaseOrder[1] THEN PhaseOrder[2] ELSE "return"

\* A match of a Delete that lets a missing reference pass.
DeleteCheckLenient(previous, existing) ==
    IF existing.tag # "Ok" THEN existing.tag
    ELSE IF previous = None \/ existing.val = None THEN "Ok"
    ELSE "Panic"

\* The match of a Delete on (previous, existing_ref?).
DeleteCheck(previous, existing) ==
    IF existing.tag # "Ok" THEN existing.tag
    ELSE IF previous = None THEN "Ok"
    ELSE IF existing.val = None THEN "DeletionReferenceMustExist"
    ELSE "Panic"

\* The match of an Update on previous, with existing_ref? in its None arm.
UpdateCheck(previous, existing) ==
    IF previous # None THEN "Panic"
    ELSE IF existing.tag # "Ok" THEN existing.tag
    ELSE "Ok"

\* The `previous` of an Update after the None arm of that match.
FilledPrevious(previous, existing) ==
    IF existing.val # None THEN existing.val ELSE previous

\* A lock policy that waits for the lock for as long as it takes.
lock_wait_mode == "Wait"

\* Transaction::lock_fail_mode, handed to both acquire calls: the model runs
\* git_lock::acquire::Fail::Immediately.
lock_fail_mode == "Immediately"

\* git_lock's acquire under Fail::Immediately: the lock file is created only
\* if it does not exist yet.
CanAcquire(n) == lockfile[n] = None

\* What the lock file of an edit holds after a successful
\* lock_ref_and_apply_change: nothing for a Marker, the staged bytes for a File.
LockContent(change) ==
    IF change.kind = "Update" THEN StagedBytes(change.new[1]) ELSE << >>

\* A staging that writes the bytes of an Update to the reference itself.
WriteDirect(n, change) ==
    /\ lockfile' = [lockfile EXCEPT ![n] = Some(<< >>)]
    /\ store' = [store EXCEPT ![n] =
          IF change.kind = "Update" THEN Some(StagedBytes(change.new[1])) ELSE @]

\* Lines 51-55 and 68-88: the new lock file is created next to the reference
\* and the bytes of an Update are written there; the reference is not touched.
WriteStaged(n, change) ==
    /\ lockfile' = [lockfile EXCEPT ![n] = Some(LockContent(change))]
    /\ UNCHANGED store

\* ------------------------------------------------------------------ actions

\* Store::transaction(edits, lock), with the edits one of `batches`.
transaction(t, batches) ==
    /\ pc[t] = "new"
    /\ \E edits \in batches :
          /\ updates' = [updates EXCEPT ![t] =
                [i \in 1..Len(edits) |->
                    [update |-> edits[i], lock |-> None, parent_index |-> None]]]
          /\ input' = [input EXCEPT ![t] = edits]
    /\ state' = [state EXCEPT ![t] = "Open"]
    /\ before' = [before EXCEPT ![t] = store]
    /\ pc' = [pc EXCEPT ![t] = "open"]
    /\ UNCHANGED <<store, lockfile, call, idx, existing_ref, lock, result, returned, fault, vanished, prepares>>

\* A prepare that goes to its loop without the uniqueness check.
PrepareOpenUnchecked(t, c) ==
    IF NumEdits(t) = 0
    THEN /\ state' = [state EXCEPT ![t] = "Prepared"]
         /\ pc' = [pc EXCEPT ![t] = IF c = "commit" THEN "return" ELSE "prepared"]
         /\ call' = [call EXCEPT ![t] = IF c = "commit" THEN c ELSE ""]
         /\ idx' = [idx EXCEPT ![t] = 1]
         /\ UNCHANGED <<store, lockfile, updates, existing_ref, lock, result,
                        returned, input, before, fault, vanished>>
    ELSE /\ pc' = [pc EXCEPT ![t] = "read"]
         /\ call' = [call EXCEPT ![t] = c]
         /\ idx' = [idx EXCEPT ![t] = 1]
         /\ UNCHANGED <<store, lockfile, updates, state, existing_ref, lock, result,
                        returned, input, before, fault, vanished>>

\* The State::Open arm of prepare up to its loop, entered from `c`.
PrepareOpen(t, c) ==
    LET unique == assure_one_name_has_one_edit(updates[t])
    IN IF unique.tag # "Ok"
       THEN /\ Finish(t, Err("DuplicateRefEdits", unique.name), << >>)
            /\ UNCHANGED <<store, state, idx, input, before, fault, vanished>>
       ELSE IF NumEdits(t) = 0
       THEN /\ state' = [state EXCEPT ![t] = "Prepared"]
            /\ pc' = [pc EXCEPT ![t] =
                  IF c = "commit" THEN "return" ELSE "prepared"]
            /\ call' = [call EXCEPT ![t] = IF c = "commit" THEN c ELSE ""]
            /\ idx' = [idx EXCEPT ![t] = 1]
            /\ UNCHANGED <<store, lockfile, updates, existing_ref, lock, result,
                           returned, input, before, fault, vanished>>
       ELSE /\ pc' = [pc EXCEPT ![t] = "read"]
            /\ call' = [call EXCEPT ![t] = c]
            /\ idx' = [idx EXCEPT ![t] = 1]
            /\ UNCHANGED <<store, lockfile, updates, state, existing_ref, lock, result,
                           returned, input, before, fault, vanished>>

\* A prepare that runs the State::Open arm whatever the state is.
PrepareAgain(t) == PrepareOpen(t, "prepare")

\* The State::Prepared arm of prepare, line 109: the transaction is returned
\* as it is.
PreparePrepared(t) ==
    UNCHANGED <<store, lockfile, updates, state, pc, call, idx, existing_ref, lock,
                result, returned, input, before, fault, vanished>>

\* Transaction::prepare called on an Open or on a Prepared transaction.
prepare(t, max) ==
    /\ pc[t] \in {"open", "prepared"}
    /\ prepares[t] < max
    /\ prepares' = [prepares EXCEPT ![t] = @ + 1]
    /\ IF state[t] = "Open" THEN PrepareOpen(t, "prepare") ELSE PreparePrepared(t)

\* lock_ref_and_apply_change, lines 41-48: read and decode the reference.
read_existing(t, F) ==
    /\ pc[t] = "read"
    /\ \E failed \in {FALSE} \cup {"read" \in F} :
          LET n == updates[t][idx[t]].update.name
              read == IF failed THEN [tag |-> "Io", val |-> None]
                      ELSE IF store[n] = None THEN [tag |-> "Ok", val |-> None]
                      ELSE Decode(store[n][1])
          IN /\ existing_ref' = [existing_ref EXCEPT ![t] = read]
             /\ fault' = [fault EXCEPT ![t] = @ \/ failed]
    /\ pc' = [pc EXCEPT ![t] = "lock"]
    /\ UNCHANGED <<store, lockfile, updates, state, call, idx, lock, result, returned,
                   input, before, vanished, prepares>>

\* An edit that does not keep the lock acquired for it.
LockNotKept(n) == None

\* Line 91, change.lock = Some(lock): the Edit keeps the lock of its reference.
KeptLock(n) == Some(n)

\* The position after edit idx[t] of the loop `p` of commit.
Advance(t, p) ==
    IF idx[t] < NumEdits(t)
    THEN /\ idx' = [idx EXCEPT ![t] = @ + 1]
         /\ pc' = [pc EXCEPT ![t] = p]
    ELSE /\ idx' = [idx EXCEPT ![t] = 1]
         /\ pc' = [pc EXCEPT ![t] = AfterPhase(p)]

\* lock_ref_and_apply_change, lines 36-39 and 49-92: acquire the lock of the
\* edit, check `previous` against the reference that was read, stage the new
\* value of an Update and keep the lock in the Edit. `failed` is the lock or
\* I/O operation the environment makes fail.
lock_ref_and_apply_change(t, F) ==
    /\ pc[t] = "lock"
    /\ \E failed \in {"none"} \cup (F \cap {"acquire", "write"}) :
          LET i == idx[t]
              e == updates[t][i]
              n == e.update.name
              ch == e.update.change
              acquired == CanAcquire(n) /\ failed # "acquire"
              check == IF ch.kind = "Delete"
                       THEN DeleteCheck(ch.previous, existing_ref[t])
                       ELSE UpdateCheck(ch.previous, existing_ref[t])
              outcome == IF e.lock # None THEN "Panic"
                         ELSE IF ~acquired THEN "LockAcquire"
                         ELSE IF check = "Ok" /\ failed = "write" THEN "Io"
                         ELSE check
              previous == IF ch.kind = "Update"
                          THEN FilledPrevious(ch.previous, existing_ref[t])
                          ELSE ch.previous
              last == i = NumEdits(t)
          IN /\ lock_fail_mode = "Immediately" \/ CanAcquire(n) \/ failed = "acquire"
             /\ failed = "write" => acquired /\ ch.kind = "Update" /\ check = "Ok"
             /\ fault' = [fault EXCEPT ![t] = @ \/ outcome \in {"LockAcquire", "Io"}]
             /\ IF outcome = "Ok"
                THEN /\ updates' = [updates EXCEPT ![t][i] =
                           [update |-> [e.update EXCEPT !.change.previous = previous],
                            lock |-> KeptLock(n),
                            parent_index |-> e.parent_index]]
                     /\ WriteStaged(n, ch)
                     /\ existing_ref' =
                           [existing_ref EXCEPT ![t] = [tag |-> "Ok", val |-> None]]
                     /\ state' = [state EXCEPT ![t] = IF last THEN "Prepared" ELSE @]
                     /\ idx' = [idx EXCEPT ![t] = IF last THEN 1 ELSE i + 1]
                     /\ pc' = [pc EXCEPT ![t] =
                           IF ~last THEN "read"
                           ELSE IF call[t] = "commit" THEN PhaseOrder[1]
                           ELSE "prepared"]
                     /\ call' = [call EXCEPT ![t] =
                           IF last /\ call[t] = "prepare" THEN "" ELSE @]
                     /\ UNCHANGED <<lock, result, returned, input, before, vanished, prepares>>
                ELSE /\ Finish(t,
                           Err(outcome,
                               IF outcome = "DeletionReferenceMustExist" THEN n ELSE ""),
                           << >>)
                     /\ UNCHANGED <<store, state, idx, input, before, vanished, prepares>>

\* The State::Prepared arm of commit, line 144: the first loop is entered.
CommitPrepared(t) ==
    /\ pc' = [pc EXCEPT ![t] = IF NumEdits(t) = 0 THEN "return" ELSE PhaseOrder[1]]
    /\ call' = [call EXCEPT ![t] = "commit"]
    /\ idx' = [idx EXCEPT ![t] = 1]
    /\ UNCHANGED <<store, lockfile, updates, state, existing_ref, lock, result,
                   returned, input, before, fault, vanished, prepares>>

\* A commit that treats an Open transaction as a Prepared one.
CommitOpenSkipsPrepare(t) == CommitPrepared(t)

\* The State::Open arm of commit, line 142: self.prepare()?.commit().
CommitOpen(t) == PrepareOpen(t, "commit") /\ UNCHANGED prepares

\* Transaction::commit called on an Open or on a Prepared transaction.
commit(t) ==
    /\ pc[t] \in {"open", "prepared"}
    /\ IF state[t] = "Open" THEN CommitOpen(t) ELSE CommitPrepared(t)

\* One round of commit's first loop, lines 145-157: an Update's lock is taken
\* and committed, which moves the staged file over the reference.
commit_updates(t, F) ==
    /\ pc[t] = "updates"
    /\ LET i == idx[t]
           e == updates[t][i]
           n == e.update.name
           ch == e.update.change
       IN IF ch.kind = "Delete"
          THEN /\ Advance(t, "updates")
               /\ UNCHANGED <<store, lockfile, updates, state, call, existing_ref, lock,
                              result, returned, input, before, fault, vanished, prepares>>
          ELSE \E failed \in {FALSE} \cup {"commit" \in F} :
                 IF e.lock = None \/ ch.new[1].kind # "Symbolic"
                 THEN /\ ~failed
                      /\ Finish(t, Err("Panic", ""), << >>)
                      /\ UNCHANGED <<store, state, idx, input, before, fault, vanished, prepares>>
                 ELSE IF failed
                 THEN /\ Finish(t, Err("Io", ""), << >>)
                      /\ fault' = [fault EXCEPT ![t] = TRUE]
                      /\ UNCHANGED <<store, state, idx, input, before, vanished, prepares>>
                 ELSE /\ store' = [store EXCEPT ![n] = lockfile[n]]
                      /\ lockfile' = [lockfile EXCEPT ![n] = None]
                      /\ updates' = [updates EXCEPT ![t][i].lock = None]
                      /\ Advance(t, "updates")
                      /\ UNCHANGED <<state, call, existing_ref, lock, result, returned,
                                     input, before, fault, vanished, prepares>>

\* A commit that drops the lock of a Delete before it removes the file.
DropBeforeRemove == <<"drop_lock", "remove_file">>

\* What commit does with a Delete whose lock it took, in the order it does it:
\* std::fs::remove_file, then drop(lock).
DeleteSteps == <<"remove_file", "drop_lock">>

AfterDeleteStep(t, step) ==
    IF step = DeleteSteps[1]
    THEN /\ pc' = [pc EXCEPT ![t] = DeleteSteps[2]]
         /\ UNCHANGED idx
    ELSE Advance(t, "deletes")

\* One round of commit's second loop, lines 159-164: a Delete's lock is taken.
commit_deletes(t) ==
    /\ pc[t] = "deletes"
    /\ LET i == idx[t]
           e == updates[t][i]
       IN IF e.update.change.kind = "Update"
          THEN /\ Advance(t, "deletes")
               /\ UNCHANGED <<store, lockfile, updates, state, call, existing_ref, lock,
                              result, returned, input, before, fault, vanished, prepares>>
          ELSE IF e.lock = None
          THEN /\ Finish(t, Err("Panic", ""), << >>)
               /\ UNCHANGED <<store, state, idx, input, before, fault, vanished, prepares>>
          ELSE /\ lock' = [lock EXCEPT ![t] = e.lock]
               /\ updates' = [updates EXCEPT ![t][i].lock = None]
               /\ pc' = [pc EXCEPT ![t] = DeleteSteps[1]]
               /\ UNCHANGED <<store, lockfile, state, call, idx, existing_ref, result,
                              returned, input, before, fault, vanished, prepares>>

\* A removal for which a file that is not there is a failure like any other.
NotFoundIsFailure(content, failed) ==
    IF failed \/ content = None THEN "Panic" ELSE "Ok"

\* Lines 165-169: what commit makes of the result of std::fs::remove_file on
\* a file with that content. ErrorKind::NotFound is passed over, any other
\* error ends in todo!().
RemoveOutcome(content, failed) ==
    IF failed THEN "Panic" ELSE "Ok"

\* Lines 164-169: the reference file is removed.
remove_file(t, F) ==
    /\ pc[t] = "remove_file"
    /\ \E failed \in {FALSE} \cup {"remove" \in F} :
          LET n == updates[t][idx[t]].update.name
          IN IF RemoveOutcome(store[n], failed) # "Ok"
             THEN /\ Finish(t, Err("Panic", ""), << >>)
                  /\ fault' = [fault EXCEPT ![t] = @ \/ failed]
                  /\ UNCHANGED <<store, state, idx, input, before, vanished, prepares>>
             ELSE /\ store' = [store EXCEPT ![n] = None]
                  /\ AfterDeleteStep(t, "remove_file")
                  /\ UNCHANGED <<lockfile, updates, state, call, existing_ref, lock,
                                 result, returned, input, before, fault, vanished, prepares>>

\* Line 170: drop(lock) removes the lock file of the deleted reference.
drop_lock(t) ==
    /\ pc[t] = "drop_lock"
    /\ lockfile' = DropLocks(lockfile, {lock[t][i] : i \in 1..Len(lock[t])})
    /\ lock' = [lock EXCEPT ![t] = None]
    /\ AfterDeleteStep(t, "drop_lock")
    /\ UNCHANGED <<store, updates, state, call, existing_ref, result, returned, input,
                   before, fault, vanished, prepares>>

EditIsUpdate(e) == e.update.change.kind = "Update"

EditIsDelete(e) == e.update.change.kind = "Delete"

\* The edits in the order commit applied them: Updates, then Deletes.
EditsAsApplied(t) ==
    LET applied == SelectSeq(updates[t], EditIsUpdate) \o SelectSeq(updates[t], EditIsDelete)
    IN [i \in 1..NumEdits(t) |-> applied[i].update]

\* self.updates.into_iter().map(|edit| edit.update).collect(): the RefEdit of
\* every Edit, in the order of `updates`.
RealizedEdits(t) == [i \in 1..NumEdits(t) |-> updates[t][i].update]

\* Line 174: commit returns the edits.
commit_return(t) ==
    /\ pc[t] = "return"
    /\ Finish(t, Err("Ok", ""), RealizedEdits(t))
    /\ UNCHANGED <<store, state, idx, input, before, fault, vanished, prepares>>

\* The caller drops a transaction it has not committed.
drop(t) ==
    /\ pc[t] \in {"open", "prepared"}
    /\ Finish(t, Err("Dropped", ""), << >>)
    /\ UNCHANGED <<store, state, idx, input, before, fault, vanished, prepares>>

\* Transaction::into_edits, lines 98-100.
into_edits(t) ==
    /\ pc[t] \in {"open", "prepared"}
    /\ Finish(t, Err("Edits", ""), RealizedEdits(t))
    /\ UNCHANGED <<store, state, idx, input, before, fault, vanished, prepares>>

\* A process outside the transactions removes the file of a reference; the
\* name is remembered if a transaction held the reference's lock then.
outside_remove(n) ==
    /\ store[n] # None
    /\ store' = [store EXCEPT ![n] = None]
    /\ vanished' = IF lockfile[n] # None THEN vanished \cup {n} ELSE vanished
    /\ UNCHANGED <<lockfile, updates, state, pc, call, idx, existing_ref, lock, result,
                   returned, input, before, fault, prepares>>

\* ------------------------------------------------------------------ specifications

\* The lock and I/O operations the environment can make fail.
Failures == {"read", "acquire", "write", "commit", "remove"}

\* One transaction, with every batch of at most MaxEdits edits, and lock and
\* I/O operations that can fail.
Next ==
    \/ transaction(1, Batches(RefEdits, MaxEdits))
    \/ prepare(1, MaxPrepares)
    \/ read_existing(1, Failures)
    \/ lock_ref_and_apply_change(1, Failures)
    \/ commit(1)
    \/ commit_updates(1, Failures)
    \/ commit_deletes(1)
    \/ remove_file(1, Failures)
    \/ drop_lock(1)
    \/ commit_return(1)
    \/ drop(1)
    \/ into_edits(1)

Spec == Init /\ [][Next]_vars

\* One transaction whose lock and I/O operations do not fail, on a store
\* whose files other processes remove. Its edits are Deletes, with and
\* without `previous`, and Updates to a symbolic target.
EnvRefEdits ==
    {RefEdit(n, Delete(p)) : n \in Names, p \in {None, Some(Peeled("X"))}}
    \cup {RefEdit(n, Update(None, Symbolic("b"))) : n \in Names}

NextEnv ==
    \/ transaction(1, Batches(EnvRefEdits, MaxEdits))
    \/ prepare(1, MaxPrepares)
    \/ read_existing(1, {})
    \/ lock_ref_and_apply_change(1, {})
    \/ commit(1)
    \/ commit_updates(1, {})
    \/ commit_deletes(1)
    \/ remove_file(1, {})
    \/ drop_lock(1)
    \/ commit_return(1)
    \/ drop(1)
    \/ into_edits(1)
    \/ \E n \in Names : outside_remove(n)

SpecEnv == Init /\ [][NextEnv]_vars

\* Two transactions on the same store, interleaved at their filesystem
\* operations, with every batch of at most MaxConcEdits edits each. The only
\* failure is that of acquiring a lock the other transaction holds.
InitConc ==
    /\ Init
    /\ \A n \in Names : store[n] \in ConcContentChoices

NextConc ==
    \E t \in Txs :
        \/ transaction(t, Batches(ConcRefEdits, MaxConcEdits))
        \/ prepare(t, MaxConcPrepares)
        \/ read_existing(t, {})
        \/ lock_ref_and_apply_change(t, {})
        \/ commit(t)
        \/ commit_updates(t, {})
        \/ commit_deletes(t)
        \/ remove_file(t, {})
        \/ drop_lock(t)
        \/ commit_return(t)
        \/ drop(t)

SpecConc == InitConc /\ [][NextConc]_vars

\* Two transactions that are scheduled again and again until they end: the
\* caller does not keep a transaction forever.  One name is updated and the
\* other deleted, in either order.
MaxFairEdits == 2

MaxFairPrepares == 1

FairRefEdits ==
    {RefEdit("a", Update(None, Symbolic("b"))), RefEdit("b", Delete(None))}

TxFair(t) ==
    \/ transaction(t, Batches(FairRefEdits, MaxFairEdits))
    \/ prepare(t, MaxFairPrepares)
    \/ read_existing(t, {})
    \/ lock_ref_and_apply_change(t, {})
    \/ commit(t)
    \/ commit_updates(t, {})
    \/ commit_deletes(t)
    \/ remove_file(t, {})
    \/ drop_lock(t)
    \/ commit_return(t)
    \/ drop(t)

NextFair == \E t \in Txs : TxFair(t)

SpecFair == InitConc /\ [][NextFair]_vars /\ \A t \in Txs : WF_vars(TxFair(t))

\* ------------------------------------------------------------------ properties

\* The target a reference file holds: Ok(None) when the file is absent.
StoredTarget(files, n) ==
    IF files[n] = None THEN [tag |-> "Ok", val |-> None] ELSE Decode(files[n][1])

NoLockFile == \A n \in Names : lockfile[n] = None

\* A call of prepare or commit ended the transaction (the caller did not
\* drop it or take its edits back).
Ended(t) == pc[t] = "done" /\ result[t].tag \notin {"Dropped", "Edits"}

DistinctNames(edits) ==
    \A i, j \in 1..Len(edits) : i # j => edits[i].name # edits[j].name

PreviousHolds(edit, files) ==
    \/ edit.change.previous = None
    \/ StoredTarget(files, edit.name) = [tag |-> "Ok", val |-> edit.change.previous]

\* What a reference holds once the batch is applied to `files`.
Requested(edits, files, n) ==
    IF \E i \in 1..Len(edits) : edits[i].name = n
    THEN LET i == CHOOSE k \in 1..Len(edits) : edits[k].name = n
         IN [tag |-> "Ok", val |-> edits[i].change.new]
    ELSE StoredTarget(files, n)

\* C1: a batch with distinct names whose `previous` values are unset or equal
\* to what is stored, on a store whose references decode, run to the end by
\* prepare and commit without a lock or I/O failure, returns success and
\* leaves every Update's name with its new target, every Delete's name
\* absent and every other reference as it was.
C1_PrepareCommitAppliesBatch ==
    ( /\ Ended(1)
      /\ ~fault[1]
      /\ DistinctNames(input[1])
      /\ \A i \in 1..Len(input[1]) : PreviousHolds(input[1][i], before[1])
      /\ \A n \in Names : StoredTarget(before[1], n).tag = "Ok" )
    => /\ result[1].tag = "Ok"
       /\ \A n \in Names : StoredTarget(store, n) = Requested(input[1], before[1], n)

\* C2: when prepare ends an Open transaction with an error (or a panic), at
\* whichever edit, every reference has the content it had when the
\* transaction was created and no lock file of the transaction is left.
C2_FailedPrepareRollsBack ==
    (Ended(1) /\ state[1] = "Open")
    => /\ store = before[1]
       /\ NoLockFile
       /\ HeldNames(1) = {}

\* C2 witness: prepare failed at the second edit after the first, an Update,
\* had been locked and staged.
C2_Witness ==
    /\ Ended(1)
    /\ state[1] = "Open"
    /\ result[1].tag \in {"DeletionReferenceMustExist", "LockAcquire", "ReferenceDecode"}
    /\ idx[1] = 2
    /\ input[1][1].change.kind = "Update"
    /\ input[1][1].change.new # StoredTarget(before[1], input[1][1].name).val

\* C3: for a batch with two edits of the same name the transaction never
\* holds or creates a lock, never enters the loop of prepare and changes no
\* reference, and a prepare or commit on it ends with DuplicateRefEdits.
C3_DuplicateEditsFailBeforeLocking ==
    ~DistinctNames(input[1])
    => /\ NoLockFile
       /\ HeldNames(1) = {}
       /\ store = before[1]
       /\ pc[1] \in {"open", "done"}
       /\ Ended(1) => result[1].tag = "DuplicateRefEdits"

\* C3 witness: prepare returned DuplicateRefEdits for such a batch.
C3_Witness ==
    /\ ~DistinctNames(input[1])
    /\ Ended(1)
    /\ result[1].tag = "DuplicateRefEdits"
    /\ result[1].name = input[1][1].name

IsUpdate(edits, i) == edits[i].change.kind = "Update"

IsDelete(edits, i) == edits[i].change.kind = "Delete"

\* The staged content of the Update at position i is what its reference holds.
Visible(t, i) ==
    /\ updates[t][i].lock = None
    /\ store[input[t][i].name] = Some(StagedBytes(input[t][i].change.new[1]))

\* The step is commit applying the edit at position i: it takes its lock.
Applies(t, i) ==
    /\ pc[t] \in {"updates", "deletes"}
    /\ pc'[t] # "done"
    /\ updates[t][i].lock # None
    /\ updates'[t][i].lock = None

\* C4: when commit removes (or finds absent) the file of a Delete, the staged
\* content of every Update of the batch is visible at its reference; and when
\* commit applies an edit, the edits of the same kind before it in input
\* order have been applied and those after it have not.
C4_UpdatesVisibleBeforeDeletes ==
    [][ /\ (pc[1] = "remove_file" /\ pc'[1] # "done")
           => \A i \in 1..Len(input[1]) : IsUpdate(input[1], i) => Visible(1, i)
        /\ \A i \in 1..Len(updates[1]) :
              Applies(1, i)
              => \A j \in 1..Len(updates[1]) :
                    input[1][j].change.kind = input[1][i].change.kind
                    => /\ j < i => updates[1][j].lock = None
                       /\ j > i => updates[1][j].lock # None
      ]_vars

\* C4 witness: the Delete is first in input order, and its file is removed
\* with the Update after it already visible.
C4_Witness ==
    /\ pc[1] = "drop_lock"
    /\ Len(input[1]) = 2
    /\ IsDelete(input[1], 1)
    /\ IsUpdate(input[1], 2)
    /\ Visible(1, 2)
    /\ before[1][input[1][1].name] # None
    /\ store[input[1][1].name] = None

\* The batch updates one reference to Peeled(o) and deletes another one that
\* held o when the transaction was created.
MovesObject(t, o) ==
    \E i, j \in 1..Len(input[t]) :
        /\ IsUpdate(input[t], i)
        /\ input[t][i].change.new = Some(Peeled(o))
        /\ IsDelete(input[t], j)
        /\ input[t][j].name # input[t][i].name
        /\ before[t][input[t][j].name] = Some(as_bytes(o))

\* C5: for a batch that updates A to an object and deletes B which holds
\* that object, some reference of the store holds the object in every state
\* from the creation of the transaction on.
C5_ObjectStaysReferenced ==
    \A o \in Oids :
        MovesObject(1, o) => \E n \in Names : store[n] = Some(as_bytes(o))

\* C5 witness: commit ran on such a batch after a successful prepare, and ended.
C5_Witness ==
    /\ \E o \in Oids : MovesObject(1, o)
    /\ Ended(1)
    /\ state[1] = "Prepared"
    /\ ~fault[1]

\* The batch has a Delete with a `previous` that differs from the value its
\* reference holds, and no other edit with a `previous`.
StaleDelete(t) ==
    \E i \in 1..Len(input[t]) :
        /\ IsDelete(input[t], i)
        /\ input[t][i].change.previous # None
        /\ StoredTarget(before[t], input[t][i].name).tag = "Ok"
        /\ StoredTarget(before[t], input[t][i].name).val # None
        /\ StoredTarget(before[t], input[t][i].name).val # input[t][i].change.previous
        /\ \A j \in 1..Len(input[t]) : j # i => input[t][j].change.previous = None

\* C6: with such a Delete the transaction never becomes Prepared, and a
\* prepare or commit on it returns an error with the store as it was and no
\* lock file left.
C6_StaleDeleteIsAnError ==
    (StaleDelete(1) /\ DistinctNames(input[1]))
    => /\ state[1] = "Open"
       /\ Ended(1) => /\ result[1].tag \notin {"Ok", "Panic"}
                      /\ store = before[1]
                      /\ NoLockFile

Holders(n) == {t \in Txs : n \in HeldNames(t)}

Acts(t) == pc'[t] # pc[t] \/ idx'[t] # idx[t]

\* C7: in every state at most one transaction holds the lock of a reference,
\* and every step that changes a reference's file is taken by a transaction
\* that holds the lock of that reference when it takes the step.
C7_OnlyTheLockHolderMutates ==
    [][ /\ \A n \in Names : Cardinality(Holders(n)) <= 1
        /\ \A n \in Names : Cardinality(Holders(n)') <= 1
        /\ \A n \in Names :
              store'[n] # store[n] => \E t \in Holders(n) : Acts(t)
      ]_vars

\* C7 witness: a transaction removed a reference's file, still holds its
\* lock, and the other transaction was refused that lock.
C7_Witness ==
    \E t, u \in Txs :
        /\ pc[t] = "drop_lock"
        /\ before[t][lock[t][1]] # None
        /\ store[lock[t][1]] = None
        /\ u # t
        /\ result[u].tag = "LockAcquire"

\* C8: when commit makes visible an Update whose requested `previous` was
\* unset, the `previous` recorded in the edit is the value the reference
\* holds at that moment (unset if there is no such reference).
C8_RecordedPreviousIsOverwrittenValue ==
    [][ \A t \in Txs : \A i \in 1..Len(updates[t]) :
          ( /\ Applies(t, i)
            /\ IsUpdate(input[t], i)
            /\ input[t][i].change.previous = None )
          => updates[t][i].update.change.previous
                = StoredTarget(store, input[t][i].name).val
      ]_vars

\* C9: after the drop of a transaction that was not committed, Open or
\* Prepared, no lock file of it is left and every reference has the content
\* it had when the transaction was created.
C9_DropReleasesAndChangesNothing ==
    (pc[1] = "done" /\ result[1].tag = "Dropped")
    => /\ NoLockFile
       /\ HeldNames(1) = {}
       /\ store = before[1]

\* C9 witness: a Prepared transaction with a staged Update of new content
\* was dropped.
C9_Witness ==
    /\ pc[1] = "done"
    /\ result[1].tag = "Dropped"
    /\ state[1] = "Prepared"
    /\ \E i \in 1..Len(input[1]) :
          /\ IsUpdate(input[1], i)
          /\ StoredTarget(before[1], input[1][i].name).val # input[1][i].change.new

\* C10: until commit starts, every reference has the content it had when the
\* transaction was created, and later the reference of an edit that commit
\* has not applied yet still has it.
C10_StagedContentInvisibleUntilCommit ==
    /\ pc[1] \in {"open", "read", "lock", "prepared"} => store = before[1]
    /\ \A i \in 1..Len(updates[1]) :
          updates[1][i].lock # None
          => store[input[1][i].name] = before[1][input[1][i].name]

\* C10 witness: the transaction is Prepared, the lock file of an Update holds
\* the staged bytes and the reference holds something else.
C10_Witness ==
    /\ pc[1] = "prepared"
    /\ state[1] = "Prepared"
    /\ \E i \in 1..Len(input[1]) :
          /\ IsUpdate(input[1], i)
          /\ lockfile[input[1][i].name] = Some(StagedBytes(input[1][i].change.new[1]))
          /\ store[input[1][i].name] # lockfile[input[1][i].name]

\* C20: under the fail-immediately policy every transaction that was created
\* ends, a transaction that has ended holds no lock, and from some point on
\* no reference has a lock file.
C20_EveryTransactionEndsAndFreesItsLocks ==
    /\ \A t \in Txs : (pc[t] = "open") ~> (pc[t] = "done")
    /\ [](\A t \in Txs : pc[t] = "done" => HeldNames(t) = {})
    /\ <>[]NoLockFile

\* C20 witness: both transactions, with the same two names in opposite
\* orders, have ended, one of them refused a lock, and no lock file is left.
C20_Witness ==
    /\ \A t \in Txs : pc[t] = "done" /\ Len(input[t]) = 2
    /\ input[1][1].name = input[2][2].name
    /\ input[1][2].name = input[2][1].name
    /\ input[1][1].name # input[1][2].name
    /\ \E t \in Txs : result[t].tag = "LockAcquire" /\ idx[t] = 2
    /\ NoLockFile

\* Every edit of the batch is a Delete that leaves `previous` unset.
DeletesWithoutPrevious(edits) ==
    \A i \in 1..Len(edits) : edits[i].change = Delete(None)

\* C11 as stated: a batch of Deletes of distinct names that leave `previous`
\* unset, run to its end by prepare and commit without a lock or I/O failure,
\* returns success and leaves the deleted references absent, whatever the
\* files held and also when a file was removed from outside in between.
C11_DeleteWithoutPreviousSucceeds ==
    ( /\ Ended(1)
      /\ ~fault[1]
      /\ DistinctNames(input[1])
      /\ DeletesWithoutPrevious(input[1]) )
    => /\ result[1].tag = "Ok"
       /\ state[1] = "Prepared"
       /\ \A i \in 1..Len(input[1]) : store[input[1][i].name] = None

\* C11 amended: the same for references that are absent or hold content
\* that decodes.
C11_DeleteOfDecodableSucceeds ==
    (\A i \in 1..Len(input[1]) : StoredTarget(before[1], input[1][i].name).tag = "Ok")
    => C11_DeleteWithoutPreviousSucceeds

\* C11 witness: commit returned success for a Delete without `previous`
\* whose file existed at prepare and was removed from outside while the
\* transaction held its lock.
C11_Witness ==
    /\ Ended(1)
    /\ result[1].tag = "Ok"
    /\ prepares[1] = 1
    /\ \E i \in 1..Len(input[1]) :
          /\ input[1][i].change = Delete(None)
          /\ input[1][i].name \in vanished
          /\ before[1][input[1][i].name] # None
          /\ store[input[1][i].name] = None

\* Edit k of the batch is a Delete with `previous` set of a reference that
\* had no file when the transaction was created.
DeleteOfMissing(edits, files, k) ==
    /\ edits[k].change.kind = "Delete"
    /\ edits[k].change.previous # None
    /\ files[edits[k].name] = None

\* Every edit before edit k leaves `previous` unset and has a reference that
\* is absent or decodes.
PassesBefore(edits, files, k) ==
    \A i \in 1..(k - 1) :
        /\ edits[i].change.previous = None
        /\ StoredTarget(files, edits[i].name).tag = "Ok"

\* C12: when the first edit of a batch that prepare can refuse is a Delete
\* with `previous` set of a reference that does not exist, and no lock or
\* I/O operation fails, the call ends with DeletionReferenceMustExist
\* carrying that reference's name, the transaction is not Prepared, and
\* neither that reference nor any other has a lock file afterwards.
C12_DeleteOfMissingWithPreviousFails ==
    \A k \in 1..Len(input[1]) :
        ( /\ Ended(1)
          /\ ~fault[1]
          /\ DistinctNames(input[1])
          /\ DeleteOfMissing(input[1], before[1], k)
          /\ PassesBefore(input[1], before[1], k) )
        => /\ result[1] = Err("DeletionReferenceMustExist", input[1][k].name)
           /\ state[1] = "Open"
           /\ lockfile[input[1][k].name] = None
           /\ HeldNames(1) = {}
           /\ NoLockFile

\* C12 witness: prepare locked and staged a first edit, then refused the
\* second, a Delete with `previous` set of a missing reference.
C12_Witness ==
    /\ Ended(1)
    /\ Len(input[1]) = 2
    /\ DeleteOfMissing(input[1], before[1], 2)
    /\ input[1][1].change.kind = "Update"
    /\ result[1] = Err("DeletionReferenceMustExist", input[1][2].name)
    /\ idx[1] = 2
    /\ lockfile[input[1][2].name] = None

\* C13: a call of prepare on a Prepared transaction changes nothing: the
\* references, the lock files, the edits with their locks and `previous`
\* values, the state and the position of the transaction are after the call
\* what they were before it, and the transaction can be used as before.
C13_PrepareOnPreparedIsIdentity ==
    [][ (prepares'[1] # prepares[1] /\ state[1] = "Prepared")
        => /\ UNCHANGED <<store, lockfile, updates, state, pc, call, idx>>
           /\ UNCHANGED <<existing_ref, lock, result, returned, input, before, fault>>
           /\ pc[1] = "prepared" ]_vars

\* C13 witness: prepare was called a second time on a transaction that holds
\* locks with staged content, and it is still Prepared and holds them.
C13_Witness ==
    /\ prepares[1] = 2
    /\ pc[1] = "prepared"
    /\ state[1] = "Prepared"
    /\ \E i \in 1..NumEdits(1) :
          /\ updates[1][i].lock # None
          /\ lockfile[updates[1][i].update.name] = Some(StagedBytes(Symbolic("b")))

\* What lock_ref_and_apply_change makes of each edit of a batch on a store
\* holding `files`, when its lock and I/O operations succeed.
PrepareChecks(edits, files) ==
    [i \in 1..Len(edits) |->
        IF edits[i].change.kind = "Delete"
        THEN DeleteCheck(edits[i].change.previous, StoredTarget(files, edits[i].name))
        ELSE UpdateCheck(edits[i].change.previous, StoredTarget(files, edits[i].name))]

\* What prepare returns for the batch: the error of the uniqueness check, or
\* that of the first edit its loop refuses, or Ok.
PrepareResult(edits, files) ==
    IF ~DistinctNames(edits) THEN "DuplicateRefEdits"
    ELSE LET refused == {i \in 1..Len(edits) : PrepareChecks(edits, files)[i] # "Ok"}
         IN IF refused = {} THEN "Ok"
            ELSE PrepareChecks(edits, files)[CHOOSE i \in refused : \A j \in refused : i <= j]

\* The Updates of the batch that commit's first loop cannot apply.
Unapplicable(edits) ==
    {i \in 1..Len(edits) :
        edits[i].change.kind = "Update" /\ edits[i].change.new[1].kind # "Symbolic"}

\* What commit returns for a batch that is Prepared.
CommitResult(edits) == IF Unapplicable(edits) = {} THEN "Ok" ELSE "Panic"

\* The references after commit ran on a Prepared batch: the Updates up to
\* the first it cannot apply are visible, and the Deletes if it got to them.
CommitStore(edits, files) ==
    [n \in Names |->
        IF \E i \in 1..Len(edits) :
              /\ edits[i].name = n
              /\ edits[i].change.kind = "Update"
              /\ \A j \in Unapplicable(edits) : i < j
        THEN LET i == CHOOSE k \in 1..Len(edits) : edits[k].name = n
             IN Some(StagedBytes(edits[i].change.new[1]))
        ELSE IF /\ Unapplicable(edits) = {}
                /\ \E i \in 1..Len(edits) :
                      edits[i].name = n /\ edits[i].change.kind = "Delete"
        THEN None
        ELSE files[n]]

\* C14: commit on an Open transaction ends as prepare followed by commit
\* does. Whichever way the transaction was run to its end without a lock or
\* I/O failure: if prepare refuses the batch, the call returns prepare's
\* error, the transaction is still Open and every reference is as it was;
\* otherwise the transaction is Prepared and the result and the references
\* are those of commit on the Prepared batch. A commit on an Open
\* transaction that ends in state Open has changed no reference, whatever
\* failed.
C14_CommitOnOpenIsPrepareThenCommit ==
    /\ (Ended(1) /\ ~fault[1])
       => IF PrepareResult(input[1], before[1]) # "Ok"
          THEN /\ result[1].tag = PrepareResult(input[1], before[1])
               /\ state[1] = "Open"
               /\ store = before[1]
               /\ NoLockFile
          ELSE /\ result[1].tag = CommitResult(input[1])
               /\ state[1] = "Prepared"
               /\ store = CommitStore(input[1], before[1])
               /\ NoLockFile
    /\ (Ended(1) /\ prepares[1] = 0 /\ state[1] = "Open")
       => store = before[1] /\ NoLockFile

\* C14 witness: commit was called on an Open transaction of two edits
\* (prepare was never called), prepared it and returned success with the
\* references changed.
C14_Witness ==
    /\ Ended(1)
    /\ prepares[1] = 0
    /\ state[1] = "Prepared"
    /\ result[1].tag = "Ok"
    /\ Len(input[1]) = 2
    /\ store # before[1]

\* C15: a commit that returns success returns as many edits as the batch
\* has, the i-th with the name, the kind and the new target of the i-th edit
\* of the batch; its `previous` is the requested one, except for an Update
\* that left it unset, where it is what the reference held when the
\* transaction prepared it (unset if there was no reference).
C15_CommitReturnsRealizedEditsInInputOrder ==
    (Ended(1) /\ result[1].tag = "Ok")
    => /\ Len(returned[1]) = Len(input[1])
       /\ \A i \in 1..Len(input[1]) :
             /\ returned[1][i].name = input[1][i].name
             /\ returned[1][i].change.kind = input[1][i].change.kind
             /\ returned[1][i].change.new = input[1][i].change.new
             /\ returned[1][i].change.previous =
                   IF /\ input[1][i].change.kind = "Update"
                      /\ input[1][i].change.previous = None
                   THEN StoredTarget(before[1], input[1][i].name).val
                   ELSE input[1][i].change.previous

\* C15 witness: commit returned success for a Delete followed by an Update
\* of an existing reference, and the second returned edit is the Update
\* with the existing value as its `previous`.
C15_Witness ==
    /\ Ended(1)
    /\ result[1].tag = "Ok"
    /\ Len(input[1]) = 2
    /\ input[1][1].change.kind = "Delete"
    /\ input[1][2].change = Update(None, Symbolic("b"))
    /\ before[1][input[1][2].name] = Some(as_bytes("X"))
    /\ returned[1][2].change.previous = Some(Peeled("X"))
    /\ returned[1][1] = input[1][1]

\* C16: into_edits, on an Open transaction or on one that prepare made
\* Prepared, returns the edits given to Store::transaction: as many, in the
\* same order, each with its name, change and `previous` as given.
C16_IntoEditsReturnsTheInput ==
    (pc[1] = "done" /\ result[1].tag = "Edits") => returned[1] = input[1]

\* The bytes of a reference file for a target: the object id's raw bytes, or
\* "ref: " (114 101 102 58 32) and the bytes of the referent's name.
FileFormat(target) ==
    IF target.kind = "Peeled"
    THEN as_bytes(target.oid)
    ELSE <<114, 101, 102, 58, 32>> \o name_bytes(target.name)

\* Commit has made the i-th edit of the transaction, an Update, visible.
Committed(t, i) ==
    /\ updates[t][i].update.change.kind = "Update"
    /\ updates[t][i].lock = None
    /\ \/ pc[t] \in {"deletes", "remove_file", "drop_lock", "return"}
       \/ pc[t] = "updates" /\ i < idx[t]
       \/ Ended(t) /\ result[t].tag = "Ok"

\* C17: the lock file of every Update that is locked holds exactly the
\* bytes of its new target in the reference file format, and so does the
\* reference of every Update that commit has made visible: nothing before
\* the object id or "ref: ", nothing after the object id or the name.
C17_StagedAndVisibleBytesAreExact ==
    \A i \in 1..NumEdits(1) :
        LET e == updates[1][i].update
        IN /\ (e.change.kind = "Update" /\ updates[1][i].lock # None)
              => lockfile[e.name] = Some(FileFormat(e.change.new[1]))
           /\ Committed(1, i) => store[e.name] = Some(FileFormat(e.change.new[1]))

\* C17 witness: commit made a symbolic Update visible as "ref: b" while the
\* next edit, a peeled Update, is staged as the two bytes of its object id.
C17_Witness ==
    /\ pc[1] = "updates"
    /\ idx[1] = 2
    /\ Committed(1, 1)
    /\ store[input[1][1].name] = Some(<<114, 101, 102, 58, 32, 98>>)
    /\ before[1][input[1][1].name] # store[input[1][1].name]
    /\ updates[1][2].lock # None
    /\ input[1][2].change.new = Some(Peeled("X"))
    /\ lockfile[input[1][2].name] = Some(<<1, 2>>)

Locked(t, i) == updates[t][i].lock # None

\* The edits of the transaction whose lock commit has taken when it is at
\* its current position: the Updates its first loop has passed, and after
\* that loop all Updates and the Deletes its second loop has reached.
Taken(t, i) ==
    LET kind == updates[t][i].update.change.kind
    IN CASE pc[t] = "updates" -> kind = "Update" /\ i < idx[t]
         [] pc[t] = "deletes" -> kind = "Update" \/ i < idx[t]
         [] pc[t] \in {"remove_file", "drop_lock"} -> kind = "Update" \/ i <= idx[t]
         [] pc[t] = "return" -> TRUE
         [] OTHER -> FALSE

\* C18: an Open transaction that has not been prepared holds no lock;
\* inside prepare the edits before the current one are locked and the
\* current and later ones are not (the assertion of line 36 holds); the
\* state is Open up to the end of prepare's loop and Prepared from then on,
\* and a Prepared transaction that waits for its next call holds the lock
\* of every edit; inside commit an edit is locked exactly as long as commit
\* has not applied it, so each `expect` of commit finds a lock.
C18_LockFieldFollowsTheProtocol ==
    /\ pc[1] \in {"new", "open"} => \A i \in 1..NumEdits(1) : ~Locked(1, i)
    /\ pc[1] \in {"read", "lock"}
       => \A i \in 1..NumEdits(1) : Locked(1, i) <=> i < idx[1]
    /\ pc[1] \in {"new", "open", "read", "lock"} => state[1] = "Open"
    /\ pc[1] \in {"prepared", "updates", "deletes", "remove_file", "drop_lock", "return"}
       => state[1] = "Prepared"
    /\ (pc[1] = "done" /\ state[1] = "Open") => result[1].tag # "Ok"
    /\ pc[1] = "prepared" => \A i \in 1..NumEdits(1) : Locked(1, i)
    /\ pc[1] \in {"updates", "deletes", "remove_file", "drop_lock", "return"}
       => \A i \in 1..NumEdits(1) : Locked(1, i) <=> ~Taken(1, i)
    /\ pc[1] = "updates" /\ updates[1][idx[1]].update.change.kind = "Update"
       => Locked(1, idx[1])
    /\ pc[1] = "deletes" /\ updates[1][idx[1]].update.change.kind = "Delete"
       => Locked(1, idx[1])
    /\ pc[1] \in {"remove_file", "drop_lock"}
       => lock[1] = Some(updates[1][idx[1]].update.name)

\* C18 witness: commit is at the second of two Deletes; it has taken and
\* dropped the lock of the first and the second is still locked.
C18_Witness ==
    /\ pc[1] = "deletes"
    /\ idx[1] = 2
    /\ updates[1][1].update.change.kind = "Delete"
    /\ updates[1][2].update.change.kind = "Delete"
    /\ ~Locked(1, 1)
    /\ Locked(1, 2)
    /\ lockfile[updates[1][1].update.name] = None
    /\ lockfile[updates[1][2].update.name] # None

\* The call of commit failed while it moved the staged file of the k-th
\* edit, an Update, over its reference.
CommitFailedAt(t, k) ==
    /\ Ended(t)
    /\ state[t] = "Prepared"
    /\ result[t].tag = "Io"
    /\ idx[t] = k

\* C19: when commit fails while it makes the k-th edit, an Update, visible,
\* the references of the Updates before it hold their new content, the
\* references of the k-th and of every later Update and of every Delete are
\* what they were when the transaction was created, and the transaction
\* holds no lock and has left no lock file.
C19_FailedCommitKeepsWhatItApplied ==
    \A k \in 1..Len(input[1]) :
        CommitFailedAt(1, k)
        => /\ input[1][k].change.kind = "Update"
           /\ \A i \in 1..Len(input[1]) :
                 LET e == input[1][i]
                 IN IF e.change.kind = "Update" /\ i < k
                    THEN store[e.name] = Some(FileFormat(e.change.new[1]))
                    ELSE store[e.name] = before[1][e.name]
           /\ HeldNames(1) = {}
           /\ NoLockFile

\* C19 witness: commit failed at the second of two Updates; the first is
\* visible and differs from what the reference held, the second is not.
C19_Witness ==
    /\ CommitFailedAt(1, 2)
    /\ input[1][1].change.kind = "Update"
    /\ store[input[1][1].name] = Some(FileFormat(input[1][1].change.new[1]))
    /\ store[input[1][1].name] # before[1][input[1][1].name]
    /\ store[input[1][2].name] = before[1][input[1][2].name]
    /\ store[input[1][2].name] # Some(FileFormat(input[1][2].change.new[1]))

====
